---- MODULE Spec2Model ----
(***************************************************************************)
(* Reconciliation loop of the Grafana controller                          *)
(* (controllers/grafana_controller.go): Reconcile, manageError,           *)
(* manageSuccess and getGrafanaAdminUrl, together with the collaborators  *)
(* the loop talks to: the cluster API holding the Grafana object, the     *)
(* process-wide controller config and the common.ControllerEvents channel.*)
(*                                                                         *)
(* An optional value (a Go pointer that may be nil) is a sequence of      *)
(* length 0 (nil) or 1 (the value).                                        *)
(***************************************************************************)
EXTENDS Integers, Sequences, FiniteSets, TLC

\* ------------------------------------------------------------ bounds
\* Number of distinct dashboard keys the config store may hold.
MaxDash == 1
\* Longest load-balancer ingress list of a cluster state snapshot.
MaxLB == 2

\* --------------------------------------------------------- constants
DefaultClientTimeoutSeconds == 5
\* model.GetGrafanaPort's default (GrafanaHttpPort)
DefaultGrafanaPort == 3000
\* config.RequeueDelay, in seconds
RequeueDelay == 10
\* capacity of the common.ControllerEvents channel
ControllerEventsCap == 1

Nil == <<>>
Some(v) == <<v>>
IsNil(p) == p = <<>>
Val(p) == p[1]

\* ------------------------------------------------------------ errors
NoError == "<nil>"
ErrNotFound == "grafanas.integreatly.org not found"
ErrConflict == "the object has been modified"
ErrApi == "cluster api unavailable"
ErrReadState == "error reading state"
ErrRunActions == "error running actions"
ErrConfigMaps == "error reconciling config maps"
ErrAdminUrl == "failed to find admin url"

\* errors.IsNotFound / errors.IsConflict
IsNotFound(err) == err = ErrNotFound
IsConflict(err) == err = ErrConflict

\* ------------------------------------------------------------ status
PhaseReconciling == "reconciling"
PhaseFailing == "failing"

\* A map[string][]*GrafanaDashboardRef: a nil map and an empty map differ
\* (reflect.DeepEqual tells them apart).  A reference carries whether its
\* hash is still set (InvalidateDashboards clears it).
NilMap == [isNil |-> TRUE, refs |-> {}]
EmptyMap == [isNil |-> FALSE, refs |-> {}]

EmptyStatus == [phase |-> "", message |-> "", dashboards |-> NilMap]

\* ------------------------------------------- getGrafanaAdminUrl (pure)
Hosts == {"", "grafana.example.com"}
LBEntries == [hostname : {"", "lb.example.com"}, ip : {"", "10.0.0.5"}]
RECURSIVE SeqsUpTo(_, _)
SeqsUpTo(S, n) ==
    IF n = 0 THEN {<<>>}
    ELSE LET shorter == SeqsUpTo(S, n - 1)
         IN shorter \cup {Append(s, e) : s \in {t \in shorter : Len(t) = n - 1}, e \in S}

Routes == {Nil} \cup {Some([host |-> h]) : h \in Hosts}
Ingresses == {Nil} \cup {Some([lb |-> l]) : l \in SeqsUpTo(LBEntries, MaxLB)}
Services ==
    {Nil} \cup {Some([clusterIP |-> ip, name |-> "grafana-service"]) :
                  ip \in {"", "None", "10.96.0.7"}}
ClusterStates == [route : Routes, ingress : Ingresses, service : Services]

Clients ==
    {Nil} \cup {Some([preferService |-> p, timeoutSeconds |-> t]) :
                  p \in BOOLEAN, t \in {Nil, Some(-5), Some(0), Some(30)}}
IngressSpecs == {Nil} \cup {Some([hostname |-> h]) : h \in {"", "ingress.example.com"}}
Ports == {Nil, Some(8080)}
GrafanaSpecs ==
    [client : Clients, ingress : IngressSpecs, port : Ports,
     selectors : {"app=grafana"}]

\* model.GetGrafanaPort: the configured port, the default when unset
GetGrafanaPort(spec) ==
    IF IsNil(spec.port) THEN DefaultGrafanaPort ELSE Val(spec.port)

\* fmt.Sprintf("https://%v", host)
HttpsUrl(host) == "https://" \o host
\* fmt.Sprintf("http://%v:%d", host, port)
HttpUrl(host, port) == "http://" \o host \o ":" \o ToString(port)

\* preferService := false; if cr.Spec.Client != nil { ... }
PreferService(spec) ==
    IF IsNil(spec.client) THEN FALSE ELSE Val(spec.client).preferService

\* UseRoute without the preferService test
UseRouteAlways(spec, state) == ~IsNil(state.route)

\* line 162
UseRoute(spec, state) == ~IsNil(state.route) /\ ~PreferService(spec)

\* line 167
UseIngress(spec, state) == ~IsNil(state.ingress) /\ ~PreferService(spec)

\* FirstLoadBalancerUrl scanning on for an entry that has a hostname
FirstHostnameUrl(lb) ==
    IF \E i \in DOMAIN lb : lb[i].hostname # ""
    THEN "https://" \o lb[CHOOSE i \in DOMAIN lb :
                              /\ lb[i].hostname # ""
                              /\ \A j \in 1..(i - 1) : lb[j].hostname = ""].hostname
    ELSE "https://" \o lb[1].ip

\* for _, ingress := range ...LoadBalancer.Ingress: returns inside the
\* first iteration, whatever the entry holds
FirstLoadBalancerUrl(lb) ==
    IF lb[1].hostname # "" THEN HttpsUrl(lb[1].hostname) ELSE HttpsUrl(lb[1].ip)

\* ServiceUrl that takes any non-empty cluster IP, "None" included
ServiceUrlAnyClusterIP(spec, state) ==
    IF IsNil(state.service) THEN [url |-> "", err |-> ErrAdminUrl]
    ELSE IF Val(state.service).clusterIP # ""
    THEN [url |-> HttpUrl(Val(state.service).clusterIP, GetGrafanaPort(spec)),
          err |-> NoError]
    ELSE [url |-> HttpUrl(Val(state.service).name, GetGrafanaPort(spec)), err |-> NoError]

\* the service tier and the final error
ServiceUrl(spec, state) ==
    \* int32(...), line 182, leaves every port below 2^31 as it is
    LET servicePort == GetGrafanaPort(spec)
    IN IF ~IsNil(state.service) /\ Val(state.service).clusterIP # ""
          /\ Val(state.service).clusterIP # "None"
       THEN [url |-> HttpUrl(Val(state.service).clusterIP, servicePort), err |-> NoError]
       ELSE IF ~IsNil(state.service)
       THEN [url |-> HttpUrl(Val(state.service).name, servicePort), err |-> NoError]
       ELSE [url |-> "", err |-> ErrAdminUrl]

\* getGrafanaAdminUrl(cr, state) -> (url, err)
getGrafanaAdminUrl(spec, state) ==
    IF UseRoute(spec, state)
    THEN [url |-> HttpsUrl(Val(state.route).host), err |-> NoError]
    ELSE IF UseIngress(spec, state)
            /\ ~IsNil(spec.ingress) /\ Val(spec.ingress).hostname # ""
    THEN [url |-> HttpsUrl(Val(spec.ingress).hostname), err |-> NoError]
    ELSE IF UseIngress(spec, state) /\ Len(Val(state.ingress).lb) > 0
    THEN [url |-> FirstLoadBalancerUrl(Val(state.ingress).lb), err |-> NoError]
    ELSE ServiceUrl(spec, state)


\* ---------------------------------------------------------- the state
VARIABLES
    obj,        \* the Grafana object as the cluster API persists it
    cfg,        \* the process-wide controller config (r.config)
    events,     \* contents of the common.ControllerEvents channel
    subscribed, \* whether some goroutine receives from ControllerEvents
    pc,         \* where the running Reconcile call stands ("idle": none runs)
    cr,         \* Reconcile's working copy (instance.DeepCopy())
    state,      \* the ClusterState read by currentState.Read
    issue,      \* the error handed to manageError
    result,     \* what the Reconcile call returns (read at pc = "done")
    trace,      \* history: the outward operations of the running call
    statusStep, \* history: how the success path's status step ended
    instance,   \* status of the re-fetched object, while an update is pending
    writes,     \* history: the statuses this call stored with Status().Update
    prev,       \* history: outcome and writes of the call before this one
    probe       \* input and output of one getGrafanaAdminUrl evaluation

\* the history variables only the status steps and the environment touch
hist == <<instance, writes, prev>>

vars ==
    <<obj, cfg, events, subscribed, pc, cr, state, issue, result,
      trace, statusStep, instance, writes, prev, probe>>

\* Specs and snapshots the reconciliation runs draw from.
ObjectSpecs ==
    {s \in GrafanaSpecs :
        /\ s.ingress = Nil
        /\ s.port = Nil
        /\ s.client \in {Nil,
                         Some([preferService |-> TRUE, timeoutSeconds |-> Some(-5)]),
                         Some([preferService |-> FALSE, timeoutSeconds |-> Some(30)]),
                         Some([preferService |-> FALSE, timeoutSeconds |-> Some(0)]),
                         Some([preferService |-> FALSE, timeoutSeconds |-> Nil])}}
ObservedStates ==
    {c \in ClusterStates :
        /\ c.ingress = Nil
        /\ c.route \in {Nil, Some([host |-> "grafana.example.com"]), Some([host |-> ""])}
        /\ c.service \in {Nil, Some([clusterIP |-> "10.96.0.7", name |-> "grafana-service"])}
        /\ ~(c.route # Nil /\ c.service # Nil)}
NoState == [route |-> Nil, ingress |-> Nil, service |-> Nil]

\* Statuses a writer other than this reconciler may store.
OtherStatuses ==
    {[phase |-> PhaseFailing, message |-> "plugins failed", dashboards |-> NilMap],
     [phase |-> PhaseFailing, message |-> ErrConflict, dashboards |-> NilMap]}

ProbeIdle == [spec |-> Nil, state |-> Nil, out |-> Nil]

\* reconcile.Result{} with an error, and reconcile.Result{RequeueAfter: ...}
EmptyResult(err) == [requeueAfter |-> 0, err |-> err]
RequeueResult == [requeueAfter |-> RequeueDelay, err |-> NoError]

\* common.ControllerState{GrafanaReady: false}
NotReady ==
    [GrafanaReady |-> FALSE, AdminUrl |-> "", ClientTimeout |-> 0,
     DashboardSelectors |-> ""]

NoStatusStep == [how |-> "none", phase |-> ""]

NoPrev == [outcome |-> <<>>, writes |-> {}]

IdleCr(spec) == [spec |-> spec, status |-> EmptyStatus, outdated |-> FALSE]

Init ==
    /\ \E s \in ObjectSpecs : 
          /\ obj = [exists |-> TRUE, spec |-> s, status |-> EmptyStatus]
          /\ cr = IdleCr(s)
    /\ cfg = [selector |-> FALSE, synced |-> FALSE, dashboards |-> NilMap]
    /\ events = <<>>
    /\ subscribed \in BOOLEAN
    /\ pc = "idle"
    /\ state = NoState
    /\ issue = NoError
    /\ result = EmptyResult(NoError)
    /\ trace = <<>>
    /\ statusStep = NoStatusStep
    /\ instance = EmptyStatus
    /\ writes = <<>>
    /\ prev = NoPrev
    /\ probe = ProbeIdle


\* --------------------------------------------- cluster API collaborator
\* r.client.Get: the stored object, NotFound when there is none, or a
\* failure of the API call itself.
GetErrors == {ErrApi} \cup (IF obj.exists THEN {NoError} ELSE {ErrNotFound})

\* r.client.Status().Update(cr): NotFound when the object is gone, Conflict
\* when cr's resourceVersion is behind the stored one, or a failure of the
\* API call itself.
UpdateErrors ==
    {ErrApi} \cup (IF ~obj.exists THEN {ErrNotFound}
                   ELSE IF cr.outdated THEN {ErrConflict}
                   ELSE {NoError})

\* NeedsUpdate with the comparison dropped: the status is taken as
\* up to date and never written
NeedsUpdateNever(want, have) == FALSE

\* !reflect.DeepEqual(cr.Status, instance.Status)
NeedsUpdate(want, have) == want # have

\* manageError(cr, issue, request): entry.  The ClusterState is not handed
\* on, and the success path's status step is over.
EnterManageError(err) ==
    /\ issue' = err
    /\ pc' = "error_event"
    /\ state' = NoState
    /\ statusStep' = NoStatusStep

Return(res) ==
    /\ result' = res
    /\ pc' = "done"

\* ------------------------------------------------------------ Reconcile
\* err := r.client.Get(...): IsNotFound, line 77
FetchNotFound ==
    /\ pc = "idle"
    /\ ErrNotFound \in GetErrors
    /\ pc' = "teardown_remove"
    /\ trace' = Append(trace, "get_not_found")
    /\ UNCHANGED <<obj, cfg, events, subscribed, cr, state, issue, result,
                   statusStep, probe, hist>>

\* any other Get error, line 88
FetchFailed ==
    /\ pc = "idle"
    /\ ErrApi \in GetErrors
    /\ Return(EmptyResult(ErrApi))
    /\ trace' = Append(trace, "get_failed")
    /\ UNCHANGED <<obj, cfg, events, subscribed, cr, state, issue, statusStep,
                   probe, hist>>

\* cr := instance.DeepCopy(), line 91
FetchOk ==
    /\ pc = "idle"
    /\ NoError \in GetErrors
    /\ cr' = [spec |-> obj.spec, status |-> obj.status, outdated |-> FALSE]
    /\ pc' = "read_state"
    /\ UNCHANGED <<obj, cfg, events, subscribed, state, issue, result, trace,
                   statusStep, probe, hist>>

\* r.config.RemoveConfigItem(config.ConfigDashboardLabelSelector), line 79
TeardownRemove ==
    /\ pc = "teardown_remove"
    /\ cfg' = [cfg EXCEPT !.selector = FALSE]
    /\ trace' = Append(trace, "remove")
    /\ pc' = "teardown_cleanup"
    /\ UNCHANGED <<obj, events, subscribed, cr, state, issue, result,
                   statusStep, probe, hist>>

\* every cached reference loses its hash
Invalidated(m) ==
    [m EXCEPT !.refs = {[name |-> d.name, hashed |-> FALSE] : d \in m.refs}]

\* r.config.Cleanup(true), line 80
TeardownCleanup ==
    /\ pc = "teardown_cleanup"
    /\ cfg' = [cfg EXCEPT !.dashboards = Invalidated(cfg.dashboards)]
    /\ trace' = Append(trace, "cleanup")
    /\ pc' = "teardown_publish"
    /\ UNCHANGED <<obj, events, subscribed, cr, state, issue, result,
                   statusStep, probe, hist>>

\* common.ControllerEvents <- fact: a channel send, which waits while the
\* channel's buffer is full
Send(fact) ==
    /\ Len(events) < ControllerEventsCap
    /\ events' = Append(events, fact)
    /\ trace' = Append(trace, IF fact.GrafanaReady THEN "publish_ready" ELSE "publish_not_ready")

\* TeardownPublish without the channel send
TeardownPublishSilent ==
    /\ pc = "teardown_publish"
    /\ Return(EmptyResult(NoError))
    /\ UNCHANGED <<obj, cfg, events, subscribed, cr, state, issue, trace, statusStep,
                   probe, hist>>

\* lines 82-86
TeardownPublish ==
    /\ pc = "teardown_publish"
    /\ Send(NotReady)
    /\ Return(EmptyResult(NoError))
    /\ UNCHANGED <<obj, cfg, subscribed, cr, state, issue, statusStep, probe, hist>>

\* currentState.Read(...), lines 94-99
ReadState ==
    /\ pc = "read_state"
    /\ \/ EnterManageError(ErrReadState)
       \/ /\ \E c \in ObservedStates : state' = c
          /\ pc' = "run_actions"
          /\ UNCHANGED <<issue, statusStep>>
    /\ UNCHANGED <<obj, cfg, events, subscribed, cr, result, trace, probe, hist>>

\* reconciler.Reconcile and actionRunner.RunAll(desiredState), lines 102-110
RunActions ==
    /\ pc = "run_actions"
    /\ \/ EnterManageError(ErrRunActions)
       \/ /\ pc' = "config_maps"
          /\ UNCHANGED <<issue, state, statusStep>>
    /\ UNCHANGED <<obj, cfg, events, subscribed, cr, result, trace, probe, hist>>

\* reconcileConfigMaps(cr, r), lines 113-118
ConfigMaps ==
    /\ pc = "config_maps"
    /\ \/ EnterManageError(ErrConfigMaps)
       \/ /\ pc' = "success_synced"
          /\ UNCHANGED <<issue, state, statusStep>>
    /\ UNCHANGED <<obj, cfg, events, subscribed, cr, result, trace, probe, hist>>


\* -------------------------------------------------------- manageSuccess
\* lines 197-202: the intended status, then
\* r.config.GetConfigBool(config.ConfigGrafanaDashboardsSynced, false)
SuccessSynced ==
    /\ pc = "success_synced"
    /\ cr' = [cr EXCEPT !.status.phase = PhaseReconciling, !.status.message = "success"]
    /\ pc' = IF cfg.synced THEN "success_copy" ELSE "success_isnil"
    /\ UNCHANGED <<obj, cfg, events, subscribed, state, issue, result, trace,
                   statusStep, probe, hist>>

\* cr.Status.InstalledDashboards = r.config.Dashboards, line 203
SuccessCopyDashboards ==
    /\ pc = "success_copy"
    /\ cr' = [cr EXCEPT !.status.dashboards = cfg.dashboards]
    /\ pc' = "success_get"
    /\ UNCHANGED <<obj, cfg, events, subscribed, state, issue, result, trace,
                   statusStep, probe, hist>>

\* if r.config.Dashboards == nil, line 205
SuccessDashboardsNil ==
    /\ pc = "success_isnil"
    /\ pc' = IF cfg.dashboards.isNil THEN "success_setdash" ELSE "success_get"
    /\ UNCHANGED <<obj, cfg, events, subscribed, cr, state, issue, result,
                   trace, statusStep, probe, hist>>

\* r.config.SetDashboards(make(map[string][]*GrafanaDashboardRef)), line 206
SuccessSetDashboards ==
    /\ pc = "success_setdash"
    /\ cfg' = [cfg EXCEPT !.dashboards = EmptyMap]
    /\ pc' = "success_get"
    /\ UNCHANGED <<obj, events, subscribed, cr, state, issue, result, trace,
                   statusStep, probe, hist>>

\* the re-fetch and the comparison, lines 210-216
SuccessGet ==
    /\ pc = "success_get"
    /\ \/ /\ \E e \in GetErrors \ {NoError} : EnterManageError(e)
          /\ UNCHANGED instance
       \/ /\ NoError \in GetErrors
          /\ IF NeedsUpdate(cr.status, obj.status)
             THEN /\ pc' = "success_update"
                  /\ instance' = obj.status
                  /\ UNCHANGED statusStep
             ELSE /\ pc' = "success_url"
                  /\ statusStep' = [how |-> "equal", phase |-> obj.status.phase]
                  /\ UNCHANGED instance
          /\ UNCHANGED <<issue, state>>
    /\ UNCHANGED <<obj, cfg, events, subscribed, cr, result, trace, probe, writes,
                   prev>>

\* r.client.Status().Update(r.context, cr), lines 217-220
SuccessUpdate ==
    /\ pc = "success_update"
    /\ instance' = EmptyStatus
    /\ \/ /\ \E e \in UpdateErrors \ {NoError} :
               /\ EnterManageError(e)
               /\ trace' = Append(trace, IF IsConflict(e) THEN "update_conflict"
                                                          ELSE "update_failed")
          /\ UNCHANGED <<obj, writes>>
       \/ /\ NoError \in UpdateErrors
          /\ obj' = [obj EXCEPT !.status = cr.status]
          /\ writes' = Append(writes, cr.status)
          /\ statusStep' = [how |-> "updated", phase |-> cr.status.phase]
          /\ trace' = Append(trace, "update_ok")
          /\ pc' = "success_url"
          /\ UNCHANGED <<issue, state>>
    /\ UNCHANGED <<cfg, events, subscribed, cr, result, probe, prev>>

\* ClientTimeout without the test for a negative value
ClientTimeoutUnclamped(spec) ==
    IF ~IsNil(spec.client) /\ ~IsNil(Val(spec.client).timeoutSeconds)
    THEN Val(Val(spec.client).timeoutSeconds)
    ELSE DefaultClientTimeoutSeconds

\* lines 237-243
ClientTimeout(spec) ==
    IF ~IsNil(spec.client) /\ ~IsNil(Val(spec.client).timeoutSeconds)
    THEN LET seconds == Val(Val(spec.client).timeoutSeconds)
         IN IF seconds < 0 THEN DefaultClientTimeoutSeconds ELSE seconds
    ELSE DefaultClientTimeoutSeconds

\* lines 229-235
ReadyState(spec, url) ==
    [GrafanaReady |-> TRUE, AdminUrl |-> url, ClientTimeout |-> ClientTimeout(spec),
     DashboardSelectors |-> spec.selectors]

\* lines 222-249: resolve the admin url, publish, requeue
SuccessPublish ==
    /\ pc = "success_url"
    /\ LET url == getGrafanaAdminUrl(cr.spec, state)
       IN \/ /\ url.err # NoError
             /\ EnterManageError(url.err)
             /\ UNCHANGED <<events, trace, result>>
          \/ /\ url.err = NoError
             /\ Send(ReadyState(cr.spec, url.url))
             /\ Return(RequeueResult)
             /\ UNCHANGED <<issue, state, statusStep>>
    /\ UNCHANGED <<obj, cfg, subscribed, cr, probe, hist>>

\* ---------------------------------------------------------- manageError
\* lines 121-123
ErrorEvent ==
    /\ pc = "error_event"
    /\ trace' = Append(trace, "warning_event")
    /\ cr' = [cr EXCEPT !.status.phase = PhaseFailing, !.status.message = issue]
    /\ pc' = "error_get"
    /\ UNCHANGED <<obj, cfg, events, subscribed, state, issue, result,
                   statusStep, probe, hist>>

\* ErrorGet going on to the invalidation when the re-fetch fails
ErrorGetIgnoresFailure ==
    /\ pc = "error_get"
    /\ \/ /\ \E e \in GetErrors \ {NoError} : pc' = "error_invalidate"
          /\ trace' = Append(trace, "error_get_failed")
       \/ /\ NoError \in GetErrors
          /\ pc' = IF NeedsUpdate(cr.status, obj.status)
                   THEN "error_update" ELSE "error_invalidate"
          /\ trace' = Append(trace, "error_get_ok")
    /\ instance' = IF pc' = "error_update" THEN obj.status ELSE instance
    /\ UNCHANGED <<obj, cfg, events, subscribed, cr, state, issue, result, statusStep,
                   probe, writes, prev>>

\* lines 125-131
ErrorGet ==
    /\ pc = "error_get"
    /\ \/ /\ \E e \in GetErrors \ {NoError} : Return(EmptyResult(e))
          /\ trace' = Append(trace, "error_get_failed")
          /\ UNCHANGED instance
       \/ /\ NoError \in GetErrors
          /\ pc' = IF NeedsUpdate(cr.status, obj.status)
                   THEN "error_update" ELSE "error_invalidate"
          /\ instance' = IF NeedsUpdate(cr.status, obj.status)
                         THEN obj.status ELSE instance
          /\ trace' = Append(trace, "error_get_ok")
          /\ UNCHANGED result
    /\ UNCHANGED <<obj, cfg, events, subscribed, cr, state, issue, statusStep,
                   probe, writes, prev>>

\* UpdateFailure without the IsConflict test: every update error is returned
UpdateFailureUnfiltered(err) == EmptyResult(err)

\* lines 133-138: what manageError returns when its status update fails
UpdateFailure(err) == EmptyResult(IF IsConflict(err) THEN NoError ELSE err)

\* lines 132-139
ErrorUpdate ==
    /\ pc = "error_update"
    /\ instance' = EmptyStatus
    /\ \/ /\ \E e \in UpdateErrors \ {NoError} :
               /\ Return(UpdateFailure(e))
               /\ trace' = Append(trace, IF IsConflict(e) THEN "update_conflict"
                                                          ELSE "update_failed")
          /\ UNCHANGED <<obj, writes>>
       \/ /\ NoError \in UpdateErrors
          /\ obj' = [obj EXCEPT !.status = cr.status]
          /\ writes' = Append(writes, cr.status)
          /\ trace' = Append(trace, "update_ok")
          /\ pc' = "error_invalidate"
          /\ UNCHANGED result
    /\ UNCHANGED <<cfg, events, subscribed, cr, state, issue, statusStep,
                   probe, prev>>

\* r.config.InvalidateDashboards(), line 142
ErrorInvalidate ==
    /\ pc = "error_invalidate"
    /\ cfg' = [cfg EXCEPT !.dashboards = Invalidated(cfg.dashboards)]
    /\ trace' = Append(trace, "invalidate")
    /\ pc' = "error_publish"
    /\ UNCHANGED <<obj, events, subscribed, cr, state, issue, result,
                   statusStep, probe, hist>>

\* lines 144-148
ErrorPublish ==
    /\ pc = "error_publish"
    /\ Send(NotReady)
    /\ Return(RequeueResult)
    /\ UNCHANGED <<obj, cfg, subscribed, cr, state, issue, statusStep, probe, hist>>

Range(seq) == {seq[i] : i \in DOMAIN seq}

\* What a finished call did, as its caller and the subscribers see it: the
\* returned result, the error handled (if any) and the facts published.
Outcome == <<result, issue, SelectSeq(trace, LAMBDA l : l \in {"publish_ready", "publish_not_ready"})>>

\* The call has returned; the scheduler may start the next one.
Returned ==
    /\ pc = "done"
    /\ pc' = "idle"
    /\ cr' = IdleCr(obj.spec)
    /\ state' = NoState
    /\ issue' = NoError
    /\ trace' = <<>>
    /\ statusStep' = NoStatusStep
    /\ result' = EmptyResult(NoError)
    /\ writes' = <<>>
    /\ UNCHANGED <<obj, cfg, events, subscribed, instance, probe>>

Finish ==
    /\ Returned
    /\ UNCHANGED prev

\* The same step, remembering what the call did for the comparison of
\* consecutive calls.
FinishRecorded ==
    /\ Returned
    /\ prev' = [outcome |-> Outcome, writes |-> Range(writes)]

\* ---------------------------------------------------------- environment
Running == pc \notin {"idle", "done"}

\* Another client stores a status: the resourceVersion moves on.
OtherWriter ==
    /\ obj.exists
    /\ \E s \in OtherStatuses :
          /\ s # obj.status
          /\ obj' = [obj EXCEPT !.status = s]
    /\ cr' = [cr EXCEPT !.outdated = Running]
    /\ UNCHANGED <<cfg, events, subscribed, pc, state, issue, result, trace,
                   statusStep, probe, hist>>

\* The object is deleted.
DeleteObject ==
    /\ obj.exists
    /\ obj' = [obj EXCEPT !.exists = FALSE, !.status = EmptyStatus]
    /\ cr' = [cr EXCEPT !.outdated = Running]
    /\ UNCHANGED <<cfg, events, subscribed, pc, state, issue, result, trace,
                   statusStep, probe, hist>>

\* The object is created (again).
CreateObject ==
    /\ ~obj.exists
    /\ obj' = [obj EXCEPT !.exists = TRUE, !.status = EmptyStatus]
    /\ cr' = [cr EXCEPT !.outdated = Running]
    /\ UNCHANGED <<cfg, events, subscribed, pc, state, issue, result, trace,
                   statusStep, probe, hist>>

\* the map holding the first k dashboards, each with its hash
Synced(k) == [isNil |-> FALSE, refs |-> {[name |-> n, hashed |-> TRUE] : n \in 1..k}]

\* The dashboard controller stores the dashboards it synced and sets the
\* synced flag and its label selector.
DashboardSync ==
    /\ \E k \in 0..MaxDash :
          /\ cfg' = [selector |-> TRUE, synced |-> TRUE, dashboards |-> Synced(k)]
          /\ cfg' # cfg
    /\ UNCHANGED <<obj, events, subscribed, pc, cr, state, issue, result,
                   trace, statusStep, probe, hist>>

\* A subscriber receives the next fact.
Receive ==
    /\ subscribed
    /\ events # <<>>
    /\ events' = Tail(events)
    /\ UNCHANGED <<obj, cfg, subscribed, pc, cr, state, issue, result, trace,
                   statusStep, probe, hist>>

Next ==
    \/ FetchNotFound \/ FetchFailed \/ FetchOk
    \/ TeardownRemove \/ TeardownCleanup \/ TeardownPublish
    \/ ReadState \/ RunActions \/ ConfigMaps
    \/ SuccessSynced \/ SuccessCopyDashboards \/ SuccessDashboardsNil
    \/ SuccessSetDashboards \/ SuccessGet \/ SuccessUpdate \/ SuccessPublish
    \/ ErrorEvent \/ ErrorGet \/ ErrorUpdate \/ ErrorInvalidate \/ ErrorPublish
    \/ Finish
    \/ OtherWriter \/ DeleteObject \/ CreateObject \/ DashboardSync \/ Receive

Spec == Init /\ [][Next]_vars

\* The reconciler with no other client writing the object: consecutive
\* calls are compared through prev.
NextAlone ==
    \/ FetchFailed \/ FetchOk
    \/ ReadState \/ RunActions \/ ConfigMaps
    \/ SuccessSynced \/ SuccessCopyDashboards \/ SuccessDashboardsNil
    \/ SuccessSetDashboards \/ SuccessGet \/ SuccessUpdate \/ SuccessPublish
    \/ ErrorEvent \/ ErrorGet \/ ErrorUpdate \/ ErrorInvalidate \/ ErrorPublish
    \/ FinishRecorded
    \/ DashboardSync \/ Receive

InitAlone ==
    /\ Init
    /\ subscribed
    /\ obj.spec.client = Nil

SpecAlone == InitAlone /\ [][NextAlone]_vars

\* ------------------------------------- getGrafanaAdminUrl on its own
ResolveInit == InitAlone

\* one evaluation of getGrafanaAdminUrl(cr, state)
Resolve ==
    /\ probe = ProbeIdle
    /\ \E s \in GrafanaSpecs, c \in ClusterStates :
          probe' = [spec |-> Some(s), state |-> Some(c),
                    out |-> Some(getGrafanaAdminUrl(s, c))]
    /\ UNCHANGED <<obj, cfg, events, subscribed, pc, cr, state, issue, result, trace,
                   statusStep, hist>>

SpecResolve == ResolveInit /\ [][Resolve]_vars

\* ------------------------------------- requeue-driven re-invocation
\* The scheduler calls Reconcile again only when the finished call asked for
\* it: a RequeueAfter delay in the result (lines 148, 249), or a returned
\* error, which the scheduler retries with its own backoff.  An empty result
\* with a nil error (lines 86, 136-138) schedules nothing.
Requeue ==
    /\ Returned
    /\ result.requeueAfter > 0 \/ result.err # NoError
    /\ UNCHANGED prev

\* The existing object, its reconciler, another status writer and a
\* subscriber that receives.
NextHeal ==
    \/ FetchFailed \/ FetchOk
    \/ ReadState \/ RunActions \/ ConfigMaps
    \/ SuccessSynced \/ SuccessCopyDashboards \/ SuccessDashboardsNil
    \/ SuccessSetDashboards \/ SuccessGet \/ SuccessUpdate \/ SuccessPublish
    \/ ErrorEvent \/ ErrorGet \/ ErrorUpdate \/ ErrorInvalidate \/ ErrorPublish
    \/ Requeue
    \/ OtherWriter \/ DashboardSync \/ Receive

\* A started call runs on to its return (every step of Reconcile is a
\* synchronous call that comes back), a requested requeue takes place, and
\* the subscriber keeps receiving.  Nothing is assumed of the other writer
\* or the dashboard controller.
FairHeal ==
    /\ WF_vars(FetchFailed \/ FetchOk)
    /\ WF_vars(ReadState) /\ WF_vars(RunActions) /\ WF_vars(ConfigMaps)
    /\ WF_vars(SuccessSynced) /\ WF_vars(SuccessCopyDashboards)
    /\ WF_vars(SuccessDashboardsNil) /\ WF_vars(SuccessSetDashboards)
    /\ WF_vars(SuccessGet) /\ WF_vars(SuccessUpdate) /\ WF_vars(SuccessPublish)
    /\ WF_vars(ErrorEvent) /\ WF_vars(ErrorGet) /\ WF_vars(ErrorUpdate)
    /\ WF_vars(ErrorInvalidate) /\ WF_vars(ErrorPublish)
    /\ WF_vars(Requeue)
    /\ WF_vars(Receive)

SpecHeal == InitAlone /\ [][NextHeal]_vars /\ FairHeal


\* ============================================================== claims
Last(seq) == seq[Len(seq)]
IsPublish(l) == l \in {"publish_ready", "publish_not_ready"}
Publishes == SelectSeq(trace, IsPublish)
\* what the call did after the first occurrence of label
After(label) ==
    LET i == CHOOSE k \in DOMAIN trace : trace[k] = label
    IN SubSeq(trace, i + 1, Len(trace))
ErrorPathEntered == "warning_event" \in Range(trace)
TeardownEntered == "get_not_found" \in Range(trace)

\* C1: a call publishes a GrafanaReady=true fact only after its status step
\* found or made the persisted status Reconciling (the re-fetched status
\* equalled the intended one, or the update succeeded), whatever other
\* writers do in between; nothing is written after the publish.
C1_StatusBeforePublish ==
    "publish_ready" \in Range(trace) =>
        /\ statusStep.how \in {"equal", "updated"}
        /\ statusStep.phase = PhaseReconciling
        /\ Last(trace) = "publish_ready"

\* C1 happens with another writer interleaved: the update was stored, the
\* other writer replaced it, and the ready fact was published afterwards.
C1_Witness ==
    /\ pc = "done"
    /\ "publish_ready" \in Range(trace)
    /\ statusStep.how = "updated"
    /\ obj.exists /\ obj.status.phase = PhaseFailing

\* C2: a conflict on a status write is swallowed on every path: it is never
\* the returned error, and it is never handled as a failure (manageError is
\* not run for it: no warning event, no Failing phase, no not-ready fact).
C2_ConflictSwallowed ==
    /\ pc = "done" => ~IsConflict(result.err)
    /\ IsConflict(issue) =>
          /\ ~ErrorPathEntered
          /\ cr.status.phase # PhaseFailing
          /\ "publish_not_ready" \notin Range(trace)

\* C3: a call on the error path whose re-fetch succeeded invalidates the
\* cached dashboards and then publishes a not-ready fact, whether no write
\* was needed, the write succeeded or the write hit a conflict.
C3_ErrorPathPublishes ==
    (/\ pc = "done"
     /\ "error_get_ok" \in Range(trace)
     /\ "update_failed" \notin Range(After("error_get_ok")))
    => LET t == After("error_get_ok")
       IN /\ Len(t) >= 2
          /\ t[Len(t) - 1] = "invalidate"
          /\ t[Len(t)] = "publish_not_ready"

\* C4: every call that returns no error returns RequeueAfter = RequeueDelay.
C4_AlwaysRequeued ==
    (pc = "done" /\ result.err = NoError) =>
        /\ result.requeueAfter = RequeueDelay
        /\ result.requeueAfter > 0

\* C5 as stated: a returned error always comes from a failed Get.
C5_OnlyFetchErrors ==
    (pc = "done" /\ result.err # NoError) =>
        Last(trace) \in {"get_failed", "error_get_failed"}

\* C5 amended: a returned error comes from a failed Get (the first fetch or
\* the re-fetch of the error path) or from a status update of the error path
\* that failed with something other than a conflict; a failed state read,
\* action run, config-map discovery or endpoint resolution and a conflict
\* are never the returned error.
C5_ReturnedErrors ==
    (pc = "done" /\ result.err # NoError) =>
        /\ Last(trace) \in {"get_failed", "error_get_failed", "update_failed"}
        /\ Last(trace) = "update_failed" => ErrorPathEntered
        /\ result.err \notin {ErrConflict, ErrReadState, ErrRunActions, ErrConfigMaps,
                              ErrAdminUrl}
        /\ result.requeueAfter = 0

\* the error path's status update failed without a conflict, and the call
\* returned that error
C5_Witness ==
    /\ pc = "done"
    /\ result.err = ErrApi
    /\ Last(trace) = "update_failed"
    /\ issue = ErrReadState

\* C6: with no subscriber receiving, a call that reaches a publish can
\* always complete it (the send does not wait).
C6_PublishNeverWaits ==
    (/\ ~subscribed
     /\ \/ pc \in {"teardown_publish", "error_publish"}
        \/ pc = "success_url" /\ getGrafanaAdminUrl(cr.spec, state).err = NoError)
    => Len(events) < ControllerEventsCap

\* C7: an update is issued only when the intended status differs from the
\* re-fetched one; and of two consecutive calls with the same outcome, no
\* other writer around, the second stores no status value the first stored.
C7_WritesIdempotent ==
    /\ pc \in {"success_update", "error_update"} => cr.status # instance
    /\ (pc = "done" /\ Outcome = prev.outcome) => Range(writes) \cap prev.writes = {}

\* the teardown path as a whole: its operations in order, and its result
C8_TeardownPath ==
    TeardownEntered =>
        /\ pc \in {"teardown_remove", "teardown_cleanup", "teardown_publish", "done"}
        /\ writes = <<>>
        /\ pc = "done" =>
              /\ trace = <<"get_not_found", "remove", "cleanup", "publish_not_ready">>
              /\ result = [requeueAfter |-> 0, err |-> "<nil>"]

\* the effect of each teardown step
C8_TeardownSteps ==
    /\ (pc = "idle" /\ pc' = "teardown_remove") => ~obj.exists
    /\ (pc = "teardown_remove" /\ pc' = "teardown_cleanup") => ~cfg'.selector
    /\ (pc = "teardown_cleanup" /\ pc' = "teardown_publish") =>
          \A d \in cfg'.dashboards.refs : ~d.hashed
    /\ (pc = "teardown_publish" /\ pc' = "done") =>
          /\ Len(events') = Len(events) + 1
          /\ ~Last(events').GrafanaReady
    /\ (TeardownEntered /\ pc' # pc) => obj' = obj

\* C8: after a NotFound on the first fetch the call removes the label
\* selector, invalidates every cached dashboard, publishes a not-ready fact,
\* writes no status and returns an empty result with no error.
C8_Teardown == []C8_TeardownPath /\ [][C8_TeardownSteps]_vars

\* a teardown that found cached dashboards and a selector to remove
C8_Witness ==
    /\ pc = "done"
    /\ TeardownEntered
    /\ cfg.dashboards.refs # {}
    /\ ~cfg.selector

\* C9: no call publishes more than one fact; a call that returns no error
\* publishes exactly one, ready exactly when it is the success outcome.
C9_OneFactPerCycle ==
    /\ Len(Publishes) <= 1
    /\ (pc = "done" /\ result.err = NoError) =>
          /\ Len(Publishes) = 1
          /\ (Publishes[1] = "publish_ready") <=> (~ErrorPathEntered /\ ~TeardownEntered)

\* C10: with a route and preferService false the result is https://<host>
\* whatever the ingress and the service are; with preferService true the
\* route and the ingress are not used: the result is the one the service
\* alone gives (http://<clusterIP or name>:<port>, the error without one).
C10_EndpointPriority ==
    probe # ProbeIdle =>
        LET s == probe.spec[1]
            c == probe.state[1]
            out == probe.out[1]
            prefer == s.client # <<>> /\ s.client[1].preferService
            port == IF s.port = <<>> THEN 3000 ELSE s.port[1]
            host == IF c.service[1].clusterIP \in {"", "None"}
                    THEN c.service[1].name ELSE c.service[1].clusterIP
        IN /\ (c.route # <<>> /\ ~prefer) =>
                 out = [url |-> "https://" \o c.route[1].host, err |-> "<nil>"]
           /\ prefer =>
                 /\ out = getGrafanaAdminUrl(s, [c EXCEPT !.route = <<>>, !.ingress = <<>>])
                 /\ IF c.service = <<>>
                    THEN out.err # "<nil>" /\ out.url = ""
                    ELSE out = [url |-> "http://" \o host \o ":" \o ToString(port),
                                err |-> "<nil>"]

\* route, ingress and service all present, preferService true: the service
\* decides
C10_Witness ==
    /\ probe # ProbeIdle
    /\ probe.state[1].route # <<>>
    /\ probe.state[1].ingress # <<>>
    /\ probe.state[1].service # <<>>
    /\ probe.spec[1].client # <<>> /\ probe.spec[1].client[1].preferService
    /\ probe.out[1].url = "http://10.96.0.7:3000"

\* C11: preferService false, no route, an ingress present: the hostname
\* override of the spec gives https://<override>; without one the first
\* load-balancer entry alone decides: https://<hostname> if it has one, else
\* https://<ip> of that entry, later entries never looked at.
C11_IngressTier ==
    probe # ProbeIdle =>
        LET s == probe.spec[1]
            c == probe.state[1]
            out == probe.out[1]
            prefer == s.client # <<>> /\ s.client[1].preferService
            override == IF s.ingress = <<>> THEN "" ELSE s.ingress[1].hostname
        IN (~prefer /\ c.route = <<>> /\ c.ingress # <<>>) =>
              LET lb == c.ingress[1].lb
              IN /\ override # "" =>
                       out = [url |-> "https://" \o override, err |-> "<nil>"]
                 /\ (override = "" /\ Len(lb) > 0) =>
                       /\ out.err = "<nil>"
                       /\ out.url = "https://" \o (IF lb[1].hostname # ""
                                                   THEN lb[1].hostname ELSE lb[1].ip)
                       /\ out = getGrafanaAdminUrl(s, [c EXCEPT !.ingress[1].lb = <<lb[1]>>])

\* the first entry has only an IP, a later entry has a hostname: the IP of
\* the first entry is the answer
C11_Witness ==
    /\ probe # ProbeIdle
    /\ probe.state[1].route = <<>>
    /\ probe.state[1].ingress # <<>>
    /\ probe.spec[1].ingress = <<>>
    /\ probe.spec[1].client = <<>>
    /\ probe.state[1].ingress[1].lb =
          <<[hostname |-> "", ip |-> "10.0.0.5"], [hostname |-> "lb.example.com", ip |-> ""]>>
    /\ probe.out[1] = [url |-> "https://10.0.0.5", err |-> "<nil>"]

\* C12: with no route, no ingress and no service the resolution fails and
\* gives no URL; a call whose endpoint resolution failed is on the error
\* path, never publishes a ready fact, and when it returns no error it has
\* published exactly one fact, a not-ready one.
C12_EndpointFailure ==
    /\ (pc = "success_url" /\ state = NoState) =>
          getGrafanaAdminUrl(cr.spec, state) = [url |-> "", err |-> ErrAdminUrl]
    /\ issue = ErrAdminUrl =>
          /\ pc \in {"error_event", "error_get", "error_update", "error_invalidate",
                     "error_publish", "done"}
          /\ "publish_ready" \notin Range(trace)
    /\ (pc = "done" /\ issue = ErrAdminUrl /\ result.err = NoError) =>
          Publishes = <<"publish_not_ready">>

\* C13: the ClientTimeout of a published ready fact is 5 when the object's
\* spec sets no timeout or a negative one, the spec's value otherwise, and
\* so is never negative.
C13_TimeoutClamp ==
    \A i \in DOMAIN events :
        events[i].GrafanaReady =>
            LET client == obj.spec.client
                unset == client = <<>> \/ client[1].timeoutSeconds = <<>>
            IN /\ events[i].ClientTimeout >= 0
               /\ events[i].ClientTimeout =
                     IF unset THEN 5
                     ELSE IF client[1].timeoutSeconds[1] < 0 THEN 5
                     ELSE client[1].timeoutSeconds[1]

\* a ready fact for an object whose spec asks for a timeout of -5 seconds
C13_Witness ==
    /\ events # <<>>
    /\ events[1].GrafanaReady
    /\ obj.spec.client # <<>>
    /\ obj.spec.client[1].timeoutSeconds = <<-5>>
    /\ events[1].ClientTimeout = 5

\* C14: when the re-fetch inside the error path fails (the object deleted
\* since the first fetch included), the call returns that fetch error with
\* an empty result, and from the warning event on it does nothing else: no
\* status write, no invalidation, no published fact.
C14_RefetchFailure ==
    "error_get_failed" \in Range(trace) =>
        /\ pc = "done"
        /\ result.requeueAfter = 0
        /\ result.err \in {ErrApi, ErrNotFound}
        /\ After("warning_event") = <<"error_get_failed">>
        /\ Publishes = <<>>
        /\ \A i \in DOMAIN writes : writes[i].phase # PhaseFailing

\* the object was deleted while the call ran; the error path's re-fetch
\* reported NotFound and the call returned it
C14_Witness ==
    /\ pc = "done"
    /\ Last(trace) = "error_get_failed"
    /\ result.err = ErrNotFound
    /\ cfg.dashboards.refs # {}
    /\ \A d \in cfg.dashboards.refs : d.hashed

\* C15: a call that is on the error path has not stored a status with phase
\* Reconciling; in particular no call stores Reconciling and then Failing.
C15_PhaseMonotonic ==
    /\ ErrorPathEntered => \A i \in DOMAIN writes : writes[i].phase # PhaseReconciling
    /\ \A i, j \in DOMAIN writes :
          i < j => ~(writes[i].phase = PhaseReconciling /\ writes[j].phase = PhaseFailing)

\* C16: the success path's "set an empty dashboard map if there is none"
\* never replaces a non-empty map: no step of a reconciliation call takes
\* the config store from a map with dashboards to one without.
C16_NoClobber ==
    [][(pc # pc' /\ cfg.dashboards.refs # {}) => cfg'.dashboards.refs # {}]_vars

\* C17: the status stored on the success path always has its
\* installed-dashboards map set (the store's map when the dashboards are
\* synced, else the status's own map, an empty one when it had none).
C17_DashboardsNeverUnset ==
    \A i \in DOMAIN writes :
        writes[i].phase = PhaseReconciling => ~writes[i].dashboards.isNil

\* C18: when the route and the ingress tier give no URL (preferService
\* true, or no route and no ingress, or no route and an ingress with no
\* hostname override and an empty load-balancer list) and a service is
\* present, the result is http://<clusterIP>:<port> if the cluster IP is
\* neither empty nor "None", else http://<service name>:<port>, the port
\* being the one of the object's spec (3000 when unset).
C18_ServiceTier ==
    probe # ProbeIdle =>
        LET s == probe.spec[1]
            c == probe.state[1]
            out == probe.out[1]
            prefer == s.client # <<>> /\ s.client[1].preferService
            override == IF s.ingress = <<>> THEN "" ELSE s.ingress[1].hostname
            noUpperTier ==
                \/ prefer
                \/ c.route = <<>> /\ c.ingress = <<>>
                \/ c.route = <<>> /\ c.ingress # <<>> /\ override = ""
                      /\ c.ingress[1].lb = <<>>
            port == IF s.port = <<>> THEN 3000 ELSE s.port[1]
        IN (noUpperTier /\ c.service # <<>>) =>
              LET svc == c.service[1]
                  host == IF svc.clusterIP # "" /\ svc.clusterIP # "None"
                          THEN svc.clusterIP ELSE svc.name
              IN out = [url |-> "http://" \o host \o ":" \o ToString(port), err |-> "<nil>"]

\* a headless service (cluster IP "None") behind an ingress that has no
\* load-balancer entry yet: the service's name and the configured port
C18_Witness ==
    /\ probe # ProbeIdle
    /\ probe.state[1].route = <<>>
    /\ probe.state[1].ingress = <<[lb |-> <<>>]>>
    /\ probe.spec[1].ingress = <<>>
    /\ probe.spec[1].port = <<8080>>
    /\ probe.state[1].service # <<>>
    /\ probe.state[1].service[1].clusterIP = "None"
    /\ probe.out[1] = [url |-> "http://grafana-service:8080", err |-> "<nil>"]

\* C19: the AdminUrl of every published ready fact has a host: it is never
\* https:// or http://:<port> with nothing for the host.
C19_AdminUrlHasHost ==
    \A i \in DOMAIN events :
        events[i].GrafanaReady =>
            events[i].AdminUrl \notin {"", "https://", "http://:3000", "http://:8080"}

\* a step in which something goes wrong for the running call: it enters
\* manageError, it returns an error, or another client stores a status
FaultStep ==
    \/ pc # "error_event" /\ pc' = "error_event"
    \/ pc # "done" /\ pc' = "done" /\ result'.err # NoError
    \/ pc' = pc /\ obj'.status # obj.status

\* a call has just returned after storing or finding phase Reconciling and
\* publishing a ready fact
Healed ==
    /\ pc = "done"
    /\ result = RequeueResult
    /\ Publishes = <<"publish_ready">>
    /\ obj.status.phase = PhaseReconciling

\* C20: with re-invocation by requeue only, once the faults stop (every
\* fetch, state read, action run, config-map discovery and endpoint
\* resolution succeeds, no other writer stores a status) calls keep coming
\* that persist phase Reconciling and publish a ready fact.
C20_SelfHealing == (<>[][~FaultStep]_vars) => []<>Healed

====
